---- MODULE Spec2Model ----
(***************************************************************************)
(* Model of src/eggwars_spawners_filters_gen.py: generar_xml_eggwars.      *)
(*                                                                         *)
(* Strings are sequences of tokens.  A token stands for a fixed run of     *)
(* characters ("team", "-", "generator", "iron", "1", ...); the token      *)
(* "NL" stands for the single character U+000A.  No token is a prefix of   *)
(* another, so a sequence of tokens decodes to one string only and         *)
(* equality, concatenation, regular-expression matching and code-point     *)
(* ordering of the strings can be computed on the token sequences.         *)
(***************************************************************************)
EXTENDS Integers, Sequences, FiniteSets, TLC

(***************************************************************************)
(* Bounds.                                                                 *)
(***************************************************************************)
\* Largest number of elements of an input document.
MaxElems == 3

(***************************************************************************)
(* Tokens.                                                                 *)
(***************************************************************************)
\* The decimal digits, in code-point order.
DigitChar == <<"0", "1", "2", "3", "4", "5", "6", "7", "8", "9">>

Digits == {DigitChar[d] : d \in DOMAIN DigitChar}

\* All tokens in the order of the strings they stand for (Python compares
\* str values by code point: U+000A < '-' < digits < '_' < lower case).
TokOrder ==
    <<"NL", "-">> \o DigitChar \o
    <<"_", "blue", "diamond", "emerald", "generator", "gold", "iron", "lv",
      "red", "team">>

TokRank(t) == CHOOSE r \in DOMAIN TokOrder : TokOrder[r] = t

\* a < b for two strings.
RECURSIVE StrLess(_, _)
StrLess(a, b) ==
    IF b = <<>> THEN FALSE
    ELSE IF a = <<>> THEN TRUE
    ELSE IF Head(a) = Head(b) THEN StrLess(Tail(a), Tail(b))
    ELSE TokRank(Head(a)) < TokRank(Head(b))

\* str(n) for an int n >= 0.
RECURSIVE Str(_)
Str(n) ==
    IF n < 10 THEN <<DigitChar[n + 1]>>
    ELSE Str(n \div 10) \o <<DigitChar[(n % 10) + 1]>>

(***************************************************************************)
(* CONFIG_GENERADORES: material key -> list of (lvl, delay).               *)
(***************************************************************************)
CONFIG_GENERADORES ==
    [iron    |-> << [lvl |-> 1, delay |-> "1s"],
                    [lvl |-> 2, delay |-> "0.75s"],
                    [lvl |-> 3, delay |-> "0.5s"],
                    [lvl |-> 4, delay |-> "0.25s"] >>,
     gold    |-> << [lvl |-> 1, delay |-> "5s"],
                    [lvl |-> 2, delay |-> "3.5s"],
                    [lvl |-> 3, delay |-> "2s"],
                    [lvl |-> 4, delay |-> "1s"] >>,
     diamond |-> << [lvl |-> 1, delay |-> "10s"],
                    [lvl |-> 2, delay |-> "5s"],
                    [lvl |-> 3, delay |-> "2.5s"] >>]

\* `material in CONFIG_GENERADORES` for a captured material string.
InConfig(material) ==
    Len(material) = 1 /\ material[1] \in DOMAIN CONFIG_GENERADORES

\* CONFIG_GENERADORES.get(material), for a material that is a key.
ConfigGet(material) == CONFIG_GENERADORES[material[1]]

max_levels == 4

(***************************************************************************)
(* patron = re.compile(r"^team-(.+)-generator-(.+)-(\d+)$")                *)
(***************************************************************************)
\* '.' matches any character except a newline.
DotPlus(s) == Len(s) > 0 /\ \A p \in DOMAIN s : s[p] # "NL"

\* '\d+'
DigitPlus(s) == Len(s) > 0 /\ \A p \in DOMAIN s : s[p] \in Digits

\* '$' matches at the end of the string and just before a newline that is
\* the last character of the string.
DollarAt(s, e) ==
    \/ e = Len(s)
    \/ e = Len(s) - 1 /\ s[Len(s)] = "NL"

\* The ways the pattern can match s: <<a, b, e>> with group 1 = s[3..a],
\* group 2 = s[a+4..b], group 3 = s[b+2..e].
MatchSplits(s) ==
    IF Len(s) < 2 \/ SubSeq(s, 1, 2) # <<"team", "-">> THEN {}
    ELSE
      UNION { UNION { { <<a, b, e>> :
                          e \in { e \in (b + 2)..Len(s) :
                                    /\ DigitPlus(SubSeq(s, b + 2, e))
                                    /\ DollarAt(s, e) } } :
                      b \in { b \in (a + 4)..(Len(s) - 1) :
                                /\ DotPlus(SubSeq(s, a + 4, b))
                                /\ s[b + 1] = "-" } } :
              a \in { a \in 3..(Len(s) - 3) :
                        /\ DotPlus(SubSeq(s, 3, a))
                        /\ SubSeq(s, a + 1, a + 3)
                              = <<"-", "generator", "-">> } }

\* The match the backtracking engine returns among the ways S: every group
\* is greedy, so group 1 is the longest possible, then group 2, then
\* group 3.
GreedySplit(S) ==
    CHOOSE t \in S :
        \A u \in S :
            \/ u[1] < t[1]
            \/ u[1] = t[1] /\ u[2] < t[2]
            \/ u[1] = t[1] /\ u[2] = t[2] /\ u[3] <= t[3]

\* patron.match(region_id): ok = a match object was returned.
PatronMatch(region_id) ==
    LET S == MatchSplits(region_id)
    IN IF S = {}
       THEN [ok |-> FALSE, g1 |-> <<>>, g2 |-> <<>>, g3 |-> <<>>]
       ELSE LET t == GreedySplit(S)
            IN [ok |-> TRUE,
                g1 |-> SubSeq(region_id, 3, t[1]),
                g2 |-> SubSeq(region_id, t[1] + 4, t[2]),
                g3 |-> SubSeq(region_id, t[2] + 2, t[3])]

(***************************************************************************)
(* Input documents.                                                        *)
(***************************************************************************)
\* The id team-<team>-generator-<material>-<number>.
GenId(team, material, number) ==
    <<"team", "-">> \o team \o <<"-", "generator", "-">> \o material
        \o <<"-">> \o number

\* The id attributes the documents of the model draw from.
IdPool ==
    { GenId(<<"red">>, <<"iron">>, <<"2">>),
      GenId(<<"red">>, <<"iron">>, <<"1", "0">>),
      GenId(<<"red">>, <<"diamond">>, <<"1">>),
      GenId(<<"blue">>, <<"gold">>, <<"1">>),
      GenId(<<"blue">>, <<"emerald">>, <<"1">>),
      GenId(<<"blue", "-", "generator", "-", "red">>, <<"gold">>, <<"1">>),
      GenId(<<"red">>, <<"iron">>, <<"2">>) \o <<"NL">>,
      GenId(<<"red", "NL", "blue">>, <<"iron">>, <<"1">>),
      <<"red", "-", "generator", "-", "iron", "-", "1">> }

\* An element of the tree: its attrib either has an 'id' or not.
Elems ==
    { [has_id |-> TRUE, id |-> s] : s \in IdPool }
        \cup { [has_id |-> FALSE, id |-> <<>>] }

\* root.iter() of a well-formed document: the root and its descendants in
\* document order.
Docs == UNION { [1..n -> Elems] : n \in 1..MaxElems }

\* What archivo_mapa names: a well-formed document, or something ET.parse
\* raises on.
Archivos ==
    { [status |-> "ok", elems |-> d] : d \in Docs }
        \cup { [status |-> st, elems |-> <<>>] :
                  st \in {"unreadable", "malformed"} }

(***************************************************************************)
(* State.                                                                  *)
(***************************************************************************)
VARIABLES
    archivo_mapa,             \* the argument
    pc,                       \* position in generar_xml_eggwars
    elem,                     \* index of the next element of root.iter()
    generadores_encontrados,  \* the list of recorded regions
    gen,                      \* index of the loop variable gen
    i,                        \* level of the loop at line 128
    nivel,                    \* index of nivel_data in config_niveles
    out                       \* the lines printed so far

vars ==
    <<archivo_mapa, pc, elem, generadores_encontrados, gen, i, nivel, out>>

Text(t) == [kind |-> "text", text |-> t]

Init ==
    /\ archivo_mapa \in Archivos
    /\ pc = "parse"
    /\ elem = 1
    /\ generadores_encontrados = <<>>
    /\ gen = 1
    /\ i = 1
    /\ nivel = 1
    /\ out = <<>>

\* ET.parse returns.
ParseOk ==
    /\ pc = "parse"
    /\ archivo_mapa.status = "ok"
    /\ pc' = "scan"
    /\ UNCHANGED <<archivo_mapa, elem, generadores_encontrados, gen, i,
                   nivel, out>>

\* ParseFail with the error reported but the run going on to the scan.
ParseFail_Mut ==
    /\ pc = "parse"
    /\ archivo_mapa.status # "ok"
    /\ out' = Append(out, [kind |-> "error", e |-> archivo_mapa.status])
    /\ pc' = "scan"
    /\ UNCHANGED <<archivo_mapa, elem, generadores_encontrados, gen, i,
                   nivel>>

\* ET.parse raises; the except clause prints the error and the function
\* returns.
ParseFail ==
    /\ pc = "parse"
    /\ archivo_mapa.status # "ok"
    /\ out' = Append(out, [kind |-> "error", e |-> archivo_mapa.status])
    /\ pc' = "done"
    /\ UNCHANGED <<archivo_mapa, elem, generadores_encontrados, gen, i,
                   nivel>>

\* The region recorded for an id the pattern matched with m.
Region(region_id, m) ==
    [full_id  |-> region_id,
     color    |-> m.g1,
     material |-> m.g2,
     num      |-> m.g3,
     team_id  |-> <<"team", "-">> \o m.g1]

\* The regions one element adds to the list.
Extract(e) ==
    IF ~e.has_id THEN <<>>
    ELSE LET m == PatronMatch(e.id)
         IN IF m.ok /\ InConfig(m.g2) THEN <<Region(e.id, m)>> ELSE <<>>

\* ScanElem skipping an id that is already in the list.
ScanElem_Mut ==
    /\ pc = "scan"
    /\ elem <= Len(archivo_mapa.elems)
    /\ generadores_encontrados' =
           IF \E n \in DOMAIN generadores_encontrados :
                 generadores_encontrados[n].full_id
                     = archivo_mapa.elems[elem].id
           THEN generadores_encontrados
           ELSE generadores_encontrados \o Extract(archivo_mapa.elems[elem])
    /\ elem' = elem + 1
    /\ UNCHANGED <<archivo_mapa, pc, gen, i, nivel, out>>

\* One iteration of `for elem in root.iter()`.
ScanElem ==
    /\ pc = "scan"
    /\ elem <= Len(archivo_mapa.elems)
    /\ generadores_encontrados' =
           generadores_encontrados \o Extract(archivo_mapa.elems[elem])
    /\ elem' = elem + 1
    /\ UNCHANGED <<archivo_mapa, pc, gen, i, nivel, out>>

\* `if not generadores_encontrados`: print the message and return.
NoRegions ==
    /\ pc = "scan"
    /\ elem > Len(archivo_mapa.elems)
    /\ generadores_encontrados = <<>>
    /\ out' = Append(out, [kind |-> "none_found"])
    /\ pc' = "done"
    /\ UNCHANGED <<archivo_mapa, elem, generadores_encontrados, gen, i,
                   nivel>>

\* The sort key at line 106: the tuple (color, material, num) of str values.
SortKey(x) == <<x.color, x.material, x.num>>

\* int(s) for a string of digits.
RECURSIVE IntOf(_)
IntOf(s) ==
    IF s = <<>> THEN 0
    ELSE 10 * IntOf(SubSeq(s, 1, Len(s) - 1))
            + (CHOOSE d \in 0..9 : DigitChar[d + 1] = s[Len(s)])

\* KeyLess with the third component compared as int(num).
KeyLess_Mut(k1, k2) ==
    \/ StrLess(k1[1], k2[1])
    \/ k1[1] = k2[1] /\ StrLess(k1[2], k2[2])
    \/ k1[1] = k2[1] /\ k1[2] = k2[2] /\ IntOf(k1[3]) < IntOf(k2[3])

\* k1 < k2 for two tuples of three strings.
KeyLess(k1, k2) ==
    \/ StrLess(k1[1], k2[1])
    \/ k1[1] = k2[1] /\ StrLess(k1[2], k2[2])
    \/ k1[1] = k2[1] /\ k1[2] = k2[2] /\ StrLess(k1[3], k2[3])

\* x put into the sorted list s behind every element whose key is not
\* greater than its own.
RECURSIVE InsertByKey(_, _)
InsertByKey(x, s) ==
    IF s = <<>> THEN <<x>>
    ELSE IF KeyLess(SortKey(x), SortKey(Head(s))) THEN <<x>> \o s
    ELSE <<Head(s)>> \o InsertByKey(x, Tail(s))

\* list.sort(key=...): ascending by key and stable.
RECURSIVE SortByKey(_)
SortByKey(s) ==
    IF s = <<>> THEN <<>>
    ELSE InsertByKey(s[Len(s)], SortByKey(SubSeq(s, 1, Len(s) - 1)))

\* Lines 105-115: sort the list and print the head of the variable block.
SortAndHead ==
    /\ pc = "scan"
    /\ elem > Len(archivo_mapa.elems)
    /\ generadores_encontrados # <<>>
    /\ generadores_encontrados' = SortByKey(generadores_encontrados)
    /\ out' = out \o <<Text("NL"), Text(""), Text(""), Text("NL TAB")>>
    /\ gen' = 1
    /\ pc' = "lv0"
    /\ UNCHANGED <<archivo_mapa, elem, i, nivel>>

\* var_name = f"team_generator_{gen['material']}_{gen['num']}"
VarName(g) ==
    <<"team", "_", "generator", "_">> \o g.material \o <<"_">> \o g.num

\* f"{full_id}-lv{level}"
FilterId(full_id, level) == full_id \o <<"-", "lv">> \o Str(level)

\* The <variable> line printed for region g (at index n) and a level; gen
\* records the loop variable and is not part of the text.
VariableLine(g, n, level) ==
    [kind  |-> "variable",
     id    |-> FilterId(g.full_id, level),
     var   |-> VarName(g),
     team  |-> g.team_id,
     value |-> Str(level),
     gen   |-> n]

\* One iteration of the loop at line 116.
EmitLv0 ==
    /\ pc = "lv0"
    /\ gen <= Len(generadores_encontrados)
    /\ out' = Append(out, VariableLine(generadores_encontrados[gen], gen, 0))
    /\ gen' = gen + 1
    /\ UNCHANGED <<archivo_mapa, pc, elem, generadores_encontrados, i, nivel>>

\* The loop at line 116 ends; the loop at line 128 starts with i = 1.
EndLv0 ==
    /\ pc = "lv0"
    /\ gen > Len(generadores_encontrados)
    /\ i' = 1
    /\ pc' = "level head"
    /\ UNCHANGED <<archivo_mapa, elem, generadores_encontrados, gen, nivel,
                   out>>

\* Line 129: the head of level i.
LevelHead ==
    /\ pc = "level head"
    /\ i <= max_levels
    /\ out' = Append(out, Text("NL TAB"))
    /\ gen' = 1
    /\ pc' = "level"
    /\ UNCHANGED <<archivo_mapa, elem, generadores_encontrados, i, nivel>>

\* ReachesLevel with `<` for `<=`.
ReachesLevel_Mut(g, lv) == lv < Len(ConfigGet(g.material))

\* `i <= len(config)`: the material of g reaches level lv.
ReachesLevel(g, lv) == lv <= Len(ConfigGet(g.material))

\* One iteration of the loop at line 130.
EmitLevel ==
    /\ pc = "level"
    /\ gen <= Len(generadores_encontrados)
    /\ out' = IF ReachesLevel(generadores_encontrados[gen], i)
              THEN Append(out,
                          VariableLine(generadores_encontrados[gen], gen, i))
              ELSE out
    /\ gen' = gen + 1
    /\ UNCHANGED <<archivo_mapa, pc, elem, generadores_encontrados, i, nivel>>

\* The loop at line 130 ends; next i.
NextLevel ==
    /\ pc = "level"
    /\ gen > Len(generadores_encontrados)
    /\ i' = i + 1
    /\ pc' = "level head"
    /\ UNCHANGED <<archivo_mapa, elem, generadores_encontrados, gen, nivel,
                   out>>

\* Lines 138-139: the loop at line 128 ends; the head of the spawner block.
EndLevels ==
    /\ pc = "level head"
    /\ i > max_levels
    /\ out' = out \o <<Text("NL NL"), Text("")>>
    /\ gen' = 1
    /\ nivel' = 1
    /\ pc' = "spawners"
    /\ UNCHANGED <<archivo_mapa, elem, generadores_encontrados, i>>

\* ItemMaterial without the branch for gold.
ItemMaterial_Mut(material) ==
    IF material = <<"diamond">> THEN "diamond"
    ELSE IF material = <<"emerald">> THEN "emerald"
    ELSE "iron ingot"

\* Lines 147-150: the display name of the item.
ItemMaterial(material) ==
    IF material = <<"gold">> THEN "gold ingot"
    ELSE IF material = <<"diamond">> THEN "diamond"
    ELSE IF material = <<"emerald">> THEN "emerald"
    ELSE "iron ingot"

\* SpawnerLines with the filter reference one level too high.
SpawnerLines_Mut(g, n, nivel_data) ==
    << [kind   |-> "spawner",
        region |-> g.full_id,
        delay  |-> nivel_data.delay,
        filter |-> FilterId(g.full_id, nivel_data.lvl + 1),
        lvl    |-> nivel_data.lvl,
        gen    |-> n],
       [kind |-> "item", amount |-> "1", material |-> ItemMaterial(g.material)],
       [kind |-> "spawner end"] >>

\* Lines 153-159: the three lines printed for region g and nivel_data; gen
\* and lvl record the loop variables the lines were printed for and are not
\* part of the text.
SpawnerLines(g, n, nivel_data) ==
    << [kind   |-> "spawner",
        region |-> g.full_id,
        delay  |-> nivel_data.delay,
        filter |-> FilterId(g.full_id, nivel_data.lvl),
        lvl    |-> nivel_data.lvl,
        gen    |-> n],
       [kind |-> "item", amount |-> "1", material |-> ItemMaterial(g.material)],
       [kind |-> "spawner end"] >>

\* EmitSpawner walking config_niveles from its last entry to its first.
EmitSpawner_Mut ==
    /\ pc = "spawners"
    /\ gen <= Len(generadores_encontrados)
    /\ nivel <= Len(ConfigGet(generadores_encontrados[gen].material))
    /\ out' = out \o SpawnerLines(
                  generadores_encontrados[gen], gen,
                  ConfigGet(generadores_encontrados[gen].material)
                      [Len(ConfigGet(generadores_encontrados[gen].material))
                          + 1 - nivel])
    /\ nivel' = nivel + 1
    /\ UNCHANGED <<archivo_mapa, pc, elem, generadores_encontrados, gen, i>>

\* One iteration of the loop at line 152.
EmitSpawner ==
    /\ pc = "spawners"
    /\ gen <= Len(generadores_encontrados)
    /\ nivel <= Len(ConfigGet(generadores_encontrados[gen].material))
    /\ out' = out \o SpawnerLines(
                  generadores_encontrados[gen], gen,
                  ConfigGet(generadores_encontrados[gen].material)[nivel])
    /\ nivel' = nivel + 1
    /\ UNCHANGED <<archivo_mapa, pc, elem, generadores_encontrados, gen, i>>

\* The loop at line 152 ends; next gen of the loop at line 142.
NextSpawnerGen ==
    /\ pc = "spawners"
    /\ gen <= Len(generadores_encontrados)
    /\ nivel > Len(ConfigGet(generadores_encontrados[gen].material))
    /\ gen' = gen + 1
    /\ nivel' = 1
    /\ UNCHANGED <<archivo_mapa, pc, elem, generadores_encontrados, i, out>>

\* The loop at line 142 ends and the function returns.
Return ==
    /\ pc = "spawners"
    /\ gen > Len(generadores_encontrados)
    /\ pc' = "done"
    /\ UNCHANGED <<archivo_mapa, elem, generadores_encontrados, gen, i,
                   nivel, out>>

Next ==
    \/ ParseOk
    \/ ParseFail
    \/ ScanElem
    \/ NoRegions
    \/ SortAndHead
    \/ EmitLv0
    \/ EndLv0
    \/ LevelHead
    \/ EmitLevel
    \/ NextLevel
    \/ EndLevels
    \/ EmitSpawner
    \/ NextSpawnerGen
    \/ Return

Spec == Init /\ [][Next]_vars

(***************************************************************************)
(* Vocabulary of the properties.                                           *)
(***************************************************************************)
Elements == archivo_mapa.elems

Parsed == archivo_mapa.status = "ok" /\ pc # "parse"

\* Every element of the document has been scanned.
Scanned == Parsed /\ elem > Len(Elements)

\* The variable pass is over / the whole run is over, with regions recorded.
VarsDone == pc \in {"spawners", "done"} /\ generadores_encontrados # <<>>

RunDone == pc = "done" /\ generadores_encontrados # <<>>

\* The positions of the lines of one kind in the output.
LinesOf(kind) == {p \in DOMAIN out : out[p].kind = kind}

\* The number of configured (level, delay) entries of a material key.
Levels(material) == Len(CONFIG_GENERADORES[material[1]])

\* A non-empty string of the decimal digits 0-9.
IsNumber(s) ==
    /\ Len(s) > 0
    /\ \A p \in DOMAIN s :
          s[p] \in {"0", "1", "2", "3", "4", "5", "6", "7", "8", "9"}

\* The readings <<X, M, N>> of s as team-X-generator-M-N with X non-empty,
\* M a configured material and N a number.
ConfiguredReadings(s) ==
    { t \in { <<SubSeq(s, 3, a), SubSeq(s, a + 4, a + 4),
                SubSeq(s, a + 6, Len(s))>> : a \in 3..(Len(s) - 6) } :
        /\ s = GenId(t[1], t[2], t[3])
        /\ t[2][1] \in {"iron", "gold", "diamond"}
        /\ IsNumber(t[3]) }

\* s has the form team-<team>-generator-<material>-<number>, the team and
\* the material being any non-empty strings.
InGrammar(s) ==
    \E a \in 3..Len(s) : \E b \in (a + 4)..Len(s) :
        /\ b + 2 <= Len(s)
        /\ s = GenId(SubSeq(s, 3, a), SubSeq(s, a + 4, b),
                     SubSeq(s, b + 2, Len(s)))
        /\ IsNumber(SubSeq(s, b + 2, Len(s)))

\* The regions C1 says one element yields.
ClaimedRegions(e) ==
    IF e.has_id /\ ConfiguredReadings(e.id) # {}
    THEN LET t == CHOOSE t \in ConfiguredReadings(e.id) : TRUE
         IN << [full_id  |-> e.id, color |-> t[1], material |-> t[2],
                num |-> t[3], team_id |-> <<"team", "-">> \o t[1]] >>
    ELSE <<>>

RECURSIVE ClaimedList(_)
ClaimedList(n) ==
    IF n = 0 THEN <<>>
    ELSE ClaimedList(n - 1) \o ClaimedRegions(Elements[n])

(***************************************************************************)
(* C1.  Region extraction: an id team-X-generator-M-N with X any non-empty *)
(* string, M a key of CONFIG_GENERADORES and N a non-empty digit string    *)
(* yields exactly one Region with team X, material M, index N and the      *)
(* whole attribute as full id; any other id yields no Region.  Stated for  *)
(* the list while the document is scanned: it is the list of the regions   *)
(* so claimed for the elements scanned so far.                             *)
(* The code does not satisfy it: '$' also matches before a final newline   *)
(* and '.' does not match a newline.                                       *)
(***************************************************************************)
C1_Extraction ==
    (Parsed /\ pc = "scan") =>
        /\ \A n \in 1..(elem - 1) :
              Elements[n].has_id =>
                  Cardinality(ConfiguredReadings(Elements[n].id)) <= 1
        /\ generadores_encontrados = ClaimedList(elem - 1)

(***************************************************************************)
(* C4.  A parsed document none of whose ids has the form                   *)
(* team-<team>-generator-<material>-<number> prints the 'no regions found' *)
(* message and nothing else, and the run ends.                             *)
(* Fails on an id that is in the grammar but for a final newline (C1).     *)
(***************************************************************************)
C4_NoMatchOnlyMessage ==
    (Scanned /\ \A n \in DOMAIN Elements :
                   ~(Elements[n].has_id /\ InGrammar(Elements[n].id)))
        => /\ pc \in {"scan", "done"}
           /\ pc = "scan" => out = <<>>
           /\ pc = "done" => out = <<[kind |-> "none_found"]>>

(***************************************************************************)
(* C10.  After a successful parse the 'no regions found' message is        *)
(* printed iff the list of regions is empty, that is iff no id is both in  *)
(* the grammar and of a configured material; then nothing else is printed; *)
(* a document with a configured matching id never prints the message and   *)
(* emits at least one variable and one spawner.                            *)
(* The first equivalence holds of the code, the second fails on the ids    *)
(* of C1.                                                                  *)
(***************************************************************************)
C10_MessageIffNoConfiguredId ==
    (Parsed /\ pc = "done") =>
        LET message == LinesOf("none_found") # {}
            some_id == \E n \in DOMAIN Elements :
                          /\ Elements[n].has_id
                          /\ ConfiguredReadings(Elements[n].id) # {}
        IN /\ message <=> generadores_encontrados = <<>>
           /\ message <=> ~some_id
           /\ message => out = <<[kind |-> "none_found"]>>
           /\ some_id => /\ LinesOf("variable") # {}
                         /\ LinesOf("spawner") # {}

(***************************************************************************)
(* C5.  When parsing the document fails the run prints exactly one error   *)
(* message and nothing else (no variable, no spawner, no 'no regions       *)
(* found' message) and returns; in every run an error message is the last  *)
(* line printed and the run is over once it is printed.                    *)
(***************************************************************************)
C5_FailureHandling ==
    /\ (archivo_mapa.status # "ok" /\ pc # "parse") =>
          /\ pc = "done"
          /\ out = <<[kind |-> "error", e |-> archivo_mapa.status]>>
    /\ \A p \in LinesOf("error") : p = Len(out) /\ pc = "done"

C5_Witness ==
    /\ archivo_mapa.status = "malformed"
    /\ pc = "done"
    /\ Len(out) = 1
    /\ out[1].kind = "error"

(***************************************************************************)
(* C8.  Every spawner declaration holds exactly one item, of amount 1 and  *)
(* of the display name of the material key of its region: 'iron ingot'     *)
(* for iron, 'gold ingot' for gold, 'diamond' for diamond, 'emerald' for   *)
(* emerald; with the shipped table an id of material emerald produces no   *)
(* declaration, so no item of material 'emerald' is emitted.               *)
(***************************************************************************)
DisplayName(key) ==
    CASE key = "iron" -> "iron ingot"
      [] key = "gold" -> "gold ingot"
      [] key = "diamond" -> "diamond"
      [] key = "emerald" -> "emerald"

\* The ids of the document of the form team-X-generator-emerald-N.
EmeraldIds ==
    { Elements[n].id : n \in { m \in DOMAIN Elements :
        /\ Elements[m].has_id
        /\ \E a \in 3..Len(Elements[m].id) :
              /\ a + 6 <= Len(Elements[m].id)
              /\ Elements[m].id =
                    GenId(SubSeq(Elements[m].id, 3, a), <<"emerald">>,
                          SubSeq(Elements[m].id, a + 6, Len(Elements[m].id)))
              /\ IsNumber(SubSeq(Elements[m].id, a + 6,
                                 Len(Elements[m].id))) } }

\* s starts with the string t.
StartsWith(s, t) == Len(s) >= Len(t) /\ SubSeq(s, 1, Len(t)) = t

C8_ItemPayload ==
    /\ \A p \in LinesOf("spawner") :
          /\ p + 2 <= Len(out)
          /\ out[p + 1] =
                [kind |-> "item", amount |-> "1",
                 material |-> DisplayName(
                     generadores_encontrados[out[p].gen].material[1])]
          /\ out[p].region = generadores_encontrados[out[p].gen].full_id
          /\ out[p + 2].kind = "spawner end"
    /\ \A p \in LinesOf("item") :
          /\ p > 1
          /\ out[p - 1].kind = "spawner"
          /\ out[p].material # "emerald"
    /\ \A p \in LinesOf("spawner end") : p > 2 /\ out[p - 2].kind = "spawner"
    /\ \A s \in EmeraldIds :
          /\ \A p \in LinesOf("variable") : ~StartsWith(out[p].id, s)
          /\ \A p \in LinesOf("spawner") :
                out[p].region # s /\ ~StartsWith(out[p].filter, s)

C8_Witness ==
    /\ pc = "done"
    /\ EmeraldIds # {}
    /\ \E p \in LinesOf("item") : out[p].material = "gold ingot"
    /\ \E p \in LinesOf("item") : out[p].material = "diamond"

(***************************************************************************)
(* C9.  Emission order: every variable declaration is printed before the   *)
(* first spawner declaration; the variables are the level-0 variable of    *)
(* every Region, then for each level 1..MAX in increasing order one        *)
(* variable for each Region whose material defines the level, MAX = 4      *)
(* being the highest level count of a configured material, so that no      *)
(* variable of a higher level precedes one of a lower level; the spawners  *)
(* of one Region are contiguous and in increasing level order.             *)
(***************************************************************************)
IsVariable(o) == o.kind = "variable"

\* The level a <variable> line carries as its value.
LevelOf(o) == CHOOSE l \in 0..max_levels : Str(l) = o.value

\* <<region index, level>> of the variables of level l for regions 1..n.
RECURSIVE LevelGroup(_, _)
LevelGroup(l, n) ==
    IF n = 0 THEN <<>>
    ELSE LevelGroup(l, n - 1) \o
         (IF l <= Levels(generadores_encontrados[n].material)
          THEN << <<n, l>> >> ELSE <<>>)

\* The groups of levels 0..l one after the other.
RECURSIVE LevelGroups(_)
LevelGroups(l) ==
    IF l < 0 THEN <<>>
    ELSE LevelGroups(l - 1) \o LevelGroup(l, Len(generadores_encontrados))

\* <<region index, level>> of the variable lines printed so far.
PrintedVariables ==
    LET v == SelectSeq(out, IsVariable)
    IN [p \in DOMAIN v |-> <<v[p].gen, LevelOf(v[p])>>]

C9_EmissionOrder ==
    /\ \A k \in DOMAIN CONFIG_GENERADORES :
          Len(CONFIG_GENERADORES[k]) <= max_levels
    /\ \E k \in DOMAIN CONFIG_GENERADORES :
          Len(CONFIG_GENERADORES[k]) = max_levels
    /\ \A p \in LinesOf("variable") : \A q \in LinesOf("spawner") : p < q
    /\ \A p, q \in LinesOf("variable") :
          p < q => LevelOf(out[p]) <= LevelOf(out[q])
    /\ pc \notin {"parse", "scan"} =>
          /\ Len(PrintedVariables) <= Len(LevelGroups(max_levels))
          /\ PrintedVariables =
                SubSeq(LevelGroups(max_levels), 1, Len(PrintedVariables))
    /\ VarsDone => PrintedVariables = LevelGroups(max_levels)
    /\ \A p, q \in LinesOf("spawner") :
          (p < q /\ out[p].gen = out[q].gen) =>
              /\ out[p].lvl < out[q].lvl
              /\ \A r \in LinesOf("spawner") :
                    (p < r /\ r < q) => out[r].gen = out[p].gen

C9_Witness ==
    /\ pc = "done"
    /\ \E p, q \in LinesOf("spawner") :
          /\ out[p].gen # out[q].gen
          /\ generadores_encontrados[out[p].gen].material = <<"diamond">>
          /\ generadores_encontrados[out[q].gen].material = <<"iron">>

(***************************************************************************)
(* Vocabulary of C2, C3 and C7.                                            *)
(***************************************************************************)
\* The number of recorded regions whose full id is s.
Recorded(s) ==
    Cardinality({n \in DOMAIN generadores_encontrados :
                    generadores_encontrados[n].full_id = s})

\* The <variable> lines whose filter id is '<s>-lv...'.
VariablesOf(s) ==
    {p \in LinesOf("variable") : StartsWith(out[p].id, s \o <<"-", "lv">>)}

\* The <variable> lines whose filter id is '<s>-lv<k>'.
VariablesAt(s, k) ==
    {p \in LinesOf("variable") : out[p].id = s \o <<"-", "lv">> \o Str(k)}

\* The <spawner> lines whose spawn-region is s.
SpawnersOf(s) == {p \in LinesOf("spawner") : out[p].region = s}

\* The <spawner> lines of region s for the entry c of its material.
SpawnersAt(s, c) ==
    {p \in SpawnersOf(s) :
        /\ out[p].delay = c.delay
        /\ out[p].filter = s \o <<"-", "lv">> \o Str(c.lvl)}

LexLE(a, b) ==
    \/ StartsWith(b, a)
    \/ \E p \in 1..Len(a) :
          /\ p <= Len(b)
          /\ SubSeq(a, 1, p - 1) = SubSeq(b, 1, p - 1)
          /\ TokRank(a[p]) < TokRank(b[p])

\* The value of a string of digits read as a decimal number.
RECURSIVE Decimal(_)
Decimal(s) ==
    IF s = <<>> THEN 0
    ELSE 10 * Decimal(SubSeq(s, 1, Len(s) - 1)) + (TokRank(s[Len(s)]) - 3)

\* x is not behind y by (team, material, index as a number).
NumericOrder(x, y) ==
    \/ x.color # y.color /\ LexLE(x.color, y.color)
    \/ x.color = y.color /\ x.material # y.material
          /\ LexLE(x.material, y.material)
    \/ x.color = y.color /\ x.material = y.material
          /\ Decimal(x.num) <= Decimal(y.num)

\* x is not behind y by (team, material, index as a string).
StringOrder(x, y) ==
    \/ x.color # y.color /\ LexLE(x.color, y.color)
    \/ x.color = y.color /\ x.material # y.material
          /\ LexLE(x.material, y.material)
    \/ x.color = y.color /\ x.material = y.material /\ LexLE(x.num, y.num)

\* The regions of the elements 1..n in document order.
RECURSIVE InDocumentOrder(_)
InDocumentOrder(n) ==
    IF n = 0 THEN <<>>
    ELSE InDocumentOrder(n - 1) \o Extract(Elements[n])

\* The regions of s that have the (team, material, index) of x, in order.
SameKey(s, x) ==
    LET Test(y) ==
            y.color = x.color /\ y.material = x.material /\ y.num = x.num
    IN SelectSeq(s, Test)

\* The regions are emitted in the order of the list: in each level group
\* and in the spawner block the region index never decreases, and each line
\* names the region at its index.
EmittedInListOrder ==
    /\ \A p, q \in LinesOf("variable") :
          (p < q /\ out[p].value = out[q].value) => out[p].gen < out[q].gen
    /\ \A p, q \in LinesOf("spawner") : p < q => out[p].gen <= out[q].gen
    /\ \A p \in LinesOf("variable") :
          StartsWith(out[p].id,
                     generadores_encontrados[out[p].gen].full_id
                         \o <<"-", "lv">>)
    /\ \A p \in LinesOf("spawner") :
          out[p].region = generadores_encontrados[out[p].gen].full_id

(***************************************************************************)
(* C6 as claimed.  Before emission the Regions are sorted by (team label,  *)
(* material, index compared as a number), index 2 before index 10, and     *)
(* they appear in that order in every level group and in the spawner       *)
(* block.                                                                  *)
(* Fails: the index is compared as a string, so 10 comes before 2.         *)
(***************************************************************************)
C6_Claim ==
    (Parsed /\ pc \notin {"scan"}) =>
        /\ \A p, q \in DOMAIN generadores_encontrados :
              p < q => NumericOrder(generadores_encontrados[p],
                                    generadores_encontrados[q])
        /\ EmittedInListOrder

(***************************************************************************)
(* C6 as amended.  Before emission the Regions are sorted by (team label,  *)
(* material, index), each compared as a character string (so that, for the *)
(* same team and material, index 10 comes before index 2), Regions of      *)
(* equal team, material and index keeping their document order; in the     *)
(* level-0 group, in every later level group and in the spawner block the  *)
(* Regions appear in that order, whatever the order of the elements in the *)
(* document.                                                               *)
(***************************************************************************)
C6_SortedByStrings ==
    (Parsed /\ pc \notin {"scan"}) =>
        /\ \A p, q \in DOMAIN generadores_encontrados :
              p < q => StringOrder(generadores_encontrados[p],
                                   generadores_encontrados[q])
        /\ LET document == InDocumentOrder(Len(Elements))
           IN /\ Len(generadores_encontrados) = Len(document)
              /\ \A n \in DOMAIN generadores_encontrados :
                    SameKey(generadores_encontrados,
                            generadores_encontrados[n])
                        = SameKey(document, generadores_encontrados[n])
        /\ EmittedInListOrder

\* Three regions recorded out of order: index 2 (with a final newline in
\* its id), index 10 and index 2 again, emitted as 10, 2 (newline), 2.
C6_Witness ==
    /\ pc = "done"
    /\ Len(generadores_encontrados) = 3
    /\ InDocumentOrder(Len(Elements)) # generadores_encontrados
    /\ generadores_encontrados[1].num = <<"1", "0">>
    /\ generadores_encontrados[2].num = <<"2">>
    /\ generadores_encontrados[3].num = <<"2">>
    /\ generadores_encontrados[2].full_id # generadores_encontrados[3].full_id
    /\ InDocumentOrder(Len(Elements))[1] = generadores_encontrados[2]
    /\ \E p, q \in LinesOf("spawner") :
          p < q /\ out[p].gen = 1 /\ out[q].gen = 3

Carrying(s) ==
    {n \in DOMAIN Elements :
        n < elem /\ Elements[n].has_id /\ Elements[n].id = s}

====
